---- MODULE Spec2Model ----
(***************************************************************************)
(* Model of src/server.py: the tool server that proxies course/card CRUD   *)
(* to a remote REST API and runs the audio and image generation+upload     *)
(* pipelines.  One tool invocation runs at a time in this specification;   *)
(* an invocation is a sequence of steps separated by the awaits of the     *)
(* source (HTTP request, speech synthesis, image generation, storage       *)
(* upload).  Every external call and every stage outcome of the running    *)
(* invocation is appended to `trace`.                                      *)
(*                                                                         *)
(* Conventions.                                                            *)
(*   Optional[T]      <<>> is None, <<v>> is the value v.                  *)
(*   dict             a function whose domain is a set of key strings.     *)
(*   str              an atom, except where the source converts the text   *)
(*                    (lower(), replace()): there it is a sequence of      *)
(*                    one-character strings.                               *)
(*   f-string         the sequence of its parts.                           *)
(***************************************************************************)
EXTENDS Integers, Sequences, FiniteSets, TLC

VARIABLES
    tool,    \* name of the running tool, "none" between invocations
    args,    \* its arguments
    local,   \* its local variables that outlive an await
    pc,      \* "idle", the await it is suspended at, or "done"
    trace,   \* external calls and stage outcomes of the invocation, in order
    result,  \* what the invocation returned
    remote   \* the card held by the remote API, for the specification of
             \* concurrent invocations; elsewhere the remote side is
             \* abstract (any answer) and this stays as it starts

vars == <<tool, args, local, pc, trace, result, remote>>

(***************************************************************************)
(* Bounds of the model.                                                    *)
(***************************************************************************)
\* longest options list a caller passes to create_quiz_card / create_poll_card
MaxOpts == 5

(***************************************************************************)
(* Python values.                                                          *)
(***************************************************************************)
None == <<>>

Some(v) == <<v>>

\* `x is not None`
IsNotNone(o) == o # None

\* truthiness of an Optional[str]: None and "" are falsy
TruthyStr(o) == o # None /\ o[1] # ""

\* truthiness of an Optional[bool]: only True is truthy
TruthyBool(o) == o # None /\ o[1]

\* truthiness of an Optional[int]: None and 0 are falsy
TruthyInt(o) == o # None /\ o[1] # 0

EmptyDict == [k \in {} |-> 0]

\* d[k] = v on a Python dict
Put(d, k, v) == [x \in DOMAIN d \cup {k} |-> IF x = k THEN v ELSE d[x]]

\* `if cond: d[k] = v`
PutIf(cond, d, k, v) == IF cond THEN Put(d, k, v) ELSE d

\* `x in seq` on a Python list
InList(x, s) == \E i \in 1..Len(s) : s[i] = x

(***************************************************************************)
(* Text that the source converts, as sequences of characters.              *)
(***************************************************************************)
UpperChars == <<"A", "B", "C", "D", "E", "F", "G", "H", "I", "J", "K", "L", "M",
                "N", "O", "P", "Q", "R", "S", "T", "U", "V", "W", "X", "Y", "Z">>

LowerChars == <<"a", "b", "c", "d", "e", "f", "g", "h", "i", "j", "k", "l", "m",
                "n", "o", "p", "q", "r", "s", "t", "u", "v", "w", "x", "y", "z">>

LowerChar(c) ==
    IF \E i \in 1..26 : UpperChars[i] = c
    THEN LowerChars[CHOOSE i \in 1..26 : UpperChars[i] = c]
    ELSE c

\* str.lower()
Lower(s) == [i \in 1..Len(s) |-> LowerChar(s[i])]

UpperChar(c) ==
    IF \E i \in 1..26 : LowerChars[i] = c
    THEN UpperChars[CHOOSE i \in 1..26 : LowerChars[i] = c]
    ELSE c

\* str.upper()
Upper(s) == [i \in 1..Len(s) |-> UpperChar(s[i])]

IsPrefix(p, s) == Len(p) <= Len(s) /\ SubSeq(s, 1, Len(p)) = p

\* str.replace(old, new): every non-overlapping occurrence, scanning left to right
RECURSIVE Replace(_, _, _)
Replace(s, old, new) ==
    IF s = <<>> THEN <<>>
    ELSE IF IsPrefix(old, s)
         THEN new \o Replace(SubSeq(s, Len(old) + 1, Len(s)), old, new)
         ELSE <<s[1]>> \o Replace(Tail(s), old, new)

Digits == {"0", "1", "2", "3", "4", "5", "6", "7", "8", "9"}

(***************************************************************************)
(* make_api_request: the value it returns for each outcome of the request. *)
(* A JSON body is [type, error, contentsKind, contents]: type is "object"  *)
(* or "array"; error is the Optional value of the key "error";             *)
(* contentsKind says whether the key "contents" is absent, a dict or null. *)
(***************************************************************************)
JsonObject(error, contentsKind, contents) ==
    [type |-> "object", error |-> error, contentsKind |-> contentsKind, contents |-> contents]

\* {"error": msg}
ErrorDict(msg) == JsonObject(Some(msg), "absent", EmptyDict)

\* the `except httpx.HTTPStatusError` clause is missing: the broad clause answers
ApiResult_StatusLost(outcome) ==
    CASE outcome.kind = "ok" -> outcome.body
      [] OTHER               -> ErrorDict(<<"Request failed: ", outcome.text>>)

\* outcome of the HTTP exchange -> return value of make_api_request
ApiResult(outcome) ==
    CASE outcome.kind = "ok"        -> outcome.body
      [] outcome.kind = "status"    -> ErrorDict(<<"HTTP ", outcome.status, ": ", outcome.text>>)
      [] outcome.kind = "transport" -> ErrorDict(<<"Request failed: ", outcome.text>>)
      [] outcome.kind = "badjson"   -> ErrorDict(<<"Request failed: ", outcome.text>>)

\* the request fails as a stage: non-2xx or transport failure
ApiFailed(outcome) == outcome.kind # "ok"

\* `"error" in result`
HasErrorKey(r) == r.type = "object" /\ r.error # None

(***************************************************************************)
(* Trace events, results and outcomes of the external stages.              *)
(***************************************************************************)
Call(stage, data) == [stage |-> stage, ev |-> "call", data |-> data]

Ok(stage, data) == [stage |-> stage, ev |-> "ok", data |-> data]

Fail(stage, data) == [stage |-> stage, ev |-> "fail", data |-> data]

HttpRequest(method, endpoint, body) == [method |-> method, endpoint |-> endpoint, body |-> body]

NoResult == [kind |-> "none", value |-> <<>>]

\* json.dumps(value, indent=2)
Json(v) == [kind |-> "json", value |-> v]

\* a message string
Text(parts) == [kind |-> "text", value |-> parts]

\* an exception that leaves the tool function
Raised(exc) == [kind |-> "raised", value |-> <<exc>>]

NoBody == JsonObject(None, "absent", EmptyDict)

\* what the remote API can answer to one request
HttpOutcomes(bodies) ==
    {[kind |-> "ok", body |-> b, status |-> "200", text |-> ""] : b \in bodies}
    \cup {[kind |-> "status", body |-> NoBody, status |-> "500", text |-> "Internal Server Error"],
          [kind |-> "transport", body |-> NoBody, status |-> "", text |-> "timed out"]}

\* bodies of a 2xx answer to a request whose answer the tool only serialises
PlainBodies == {JsonObject(None, "absent", EmptyDict),
                JsonObject(Some(<<"rejected">>), "absent", EmptyDict)}

HttpEvent(outcome) ==
    IF ApiFailed(outcome) THEN Fail("http", outcome) ELSE Ok("http", outcome)

(***************************************************************************)
(* Steps shared by the tools.                                              *)
(***************************************************************************)
\* the tool returns without any external call
Return(t, a, r) ==
    /\ tool' = t
    /\ args' = a
    /\ local' = EmptyDict
    /\ UNCHANGED remote
    /\ trace' = <<>>
    /\ result' = r
    /\ pc' = "done"

\* the tool issues its only request through make_api_request and awaits it
Request(t, a, method, endpoint, body) ==
    /\ tool' = t
    /\ args' = a
    /\ local' = EmptyDict
    /\ UNCHANGED remote
    /\ trace' = <<Call("http", HttpRequest(method, endpoint, body))>>
    /\ result' = NoResult
    /\ pc' = "http"

\* a failed request is sent again, up to two more times
ApiResponse_Retry ==
    /\ pc = "http"
    /\ \E outcome \in HttpOutcomes(PlainBodies) :
          IF ApiFailed(outcome) /\ Len(trace) < 6
          THEN /\ trace' = trace \o <<HttpEvent(outcome), trace[Len(trace)]>>
               /\ result' = NoResult
               /\ pc' = "http"
          ELSE /\ trace' = Append(trace, HttpEvent(outcome))
               /\ result' = Json(ApiResult(outcome))
               /\ pc' = "done"
    /\ UNCHANGED <<tool, args, local, remote>>

\* result = await make_api_request(...); return json.dumps(result, indent=2)
ApiResponse ==
    /\ pc = "http"
    /\ \E outcome \in HttpOutcomes(PlainBodies) :
          /\ trace' = Append(trace, HttpEvent(outcome))
          /\ result' = Json(ApiResult(outcome))
    /\ pc' = "done"
    /\ UNCHANGED <<tool, args, local, remote>>

\* the caller has the result; the server is ready for the next invocation
Finish ==
    /\ pc = "done"
    /\ tool' = "none"
    /\ args' = EmptyDict
    /\ local' = EmptyDict
    /\ UNCHANGED remote
    /\ trace' = <<>>
    /\ result' = NoResult
    /\ pc' = "idle"

(***************************************************************************)
(* Inputs.                                                                 *)
(***************************************************************************)
OptSet(S) == {None} \cup {Some(v) : v \in S}

OptBools == OptSet(BOOLEAN)

OptStrs == OptSet({"", "s"})

OptInts == OptSet({0, 1})

CourseIds == {"c1"}

CardIds == {"card1"}

OptionAtoms == {"a", "A"}

RECURSIVE SeqsUpTo(_, _)
SeqsUpTo(S, n) ==
    IF n = 0 THEN {<<>>}
    ELSE LET shorter == SeqsUpTo(S, n - 1)
         IN  shorter \cup {Append(s, x) : s \in {t \in shorter : Len(t) = n - 1}, x \in S}

OptionLists == SeqsUpTo(OptionAtoms, MaxOpts)

Header(text) == [text |-> text, visibility |-> TRUE, size |-> "medium"]

\* `if sort_order: card_data["sortOrder"] = sort_order`
WithSortOrder(card_data, sort_order) ==
    PutIf(TruthyInt(sort_order), card_data, "sortOrder", sort_order[1])

(***************************************************************************)
(* create_quiz_card                                                        *)
(***************************************************************************)
QuizOptionCountBad(options) == Len(options) < 2 \/ Len(options) > 4

\* the comparison ignores case
QuizAnswerMissing_IgnoringCase(correct_answer, options) ==
    ~\E i \in 1..Len(options) : LowerChar(options[i]) = LowerChar(correct_answer)

\* `correct_answer not in options`
QuizAnswerMissing(correct_answer, options) == ~InList(correct_answer, options)

QuizContents(a) ==
    PutIf(TruthyStr(a.comment),
          [_header1 |-> Header(a.question), header1 |-> a.question,
           options |-> a.options, correct |-> <<a.correct_answer>>],
          "comment", a.comment[1])

QuizCardData(a) ==
    WithSortOrder([courseId |-> a.course_id, cardType |-> "quiz",
                   contents |-> QuizContents(a), isMandatory |-> a.is_mandatory],
                  a.sort_order)

QuizArgs ==
    {[course_id |-> c, question |-> "2+2?", options |-> o, correct_answer |-> ca,
      comment |-> cm, sort_order |-> so, is_mandatory |-> m] :
        c \in CourseIds, o \in OptionLists, ca \in OptionAtoms \cup {"b"},
        cm \in {None, Some("why")}, so \in OptInts, m \in BOOLEAN}

CreateQuizCard ==
    /\ pc = "idle"
    /\ \E a \in QuizArgs :
           IF QuizOptionCountBad(a.options)
           THEN Return("create_quiz_card", a, Json(ErrorDict(<<"Quiz must have 2-4 options">>)))
           ELSE IF QuizAnswerMissing(a.correct_answer, a.options)
           THEN Return("create_quiz_card", a,
                       Json(ErrorDict(<<"Correct answer '", a.correct_answer,
                                        "' must be one of the provided options">>)))
           ELSE Request("create_quiz_card", a, "POST", <<"/api/createCard">>, QuizCardData(a))

(***************************************************************************)
(* create_poll_card                                                        *)
(***************************************************************************)
\* the upper limit is off by one
PollOptionCountBad_UpTo5(options) == Len(options) < 2 \/ Len(options) > 5

PollOptionCountBad(options) == Len(options) < 2 \/ Len(options) > 4

PollContents(a) == [_header1 |-> Header(a.question), options |-> a.options]

PollCardData(a) ==
    WithSortOrder([courseId |-> a.course_id, cardType |-> "poll",
                   contents |-> PollContents(a), isMandatory |-> a.is_mandatory],
                  a.sort_order)

PollArgs ==
    {[course_id |-> c, question |-> "Which?", options |-> o, sort_order |-> so,
      is_mandatory |-> m] :
        c \in CourseIds, o \in OptionLists, so \in OptInts, m \in BOOLEAN}

CreatePollCard ==
    /\ pc = "idle"
    /\ \E a \in PollArgs :
           IF PollOptionCountBad(a.options)
           THEN Return("create_poll_card", a, Json(ErrorDict(<<"Poll must have 2-4 options">>)))
           ELSE Request("create_poll_card", a, "POST", <<"/api/createCard">>, PollCardData(a))

(***************************************************************************)
(* update_card                                                             *)
(***************************************************************************)
PutOpt(d, k, o) == IF o = None THEN d ELSE Put(d, k, o[1])

\* card contents on the remote side and partial contents a caller passes
ContentsDicts ==
    {PutOpt(PutOpt(PutOpt(EmptyDict, "options", o), "correct", c), "_header1", h) :
        o \in OptSet({<<"a", "b">>, <<"a">>}),
        c \in OptSet({<<"a">>, <<"c">>}),
        h \in OptSet({[text |-> "t"], [text |-> "u", size |-> "medium"]})}

\* 2xx bodies of GET /api/card/{id}
CardBodies ==
    {JsonObject(None, "dict", d) : d \in ContentsDicts}
    \cup {JsonObject(None, "absent", EmptyDict),
          JsonObject(None, "null", EmptyDict),
          JsonObject(Some(<<"card not found">>), "absent", EmptyDict),
          [type |-> "array", error |-> None, contentsKind |-> "absent", contents |-> EmptyDict]}

\* {**contents, **current_contents}: the fetched value wins
MergeContents_ServerWins(current_contents, contents) ==
    [k \in DOMAIN current_contents \cup DOMAIN contents |->
        IF k \in DOMAIN current_contents THEN current_contents[k] ELSE contents[k]]

\* {**current_contents, **contents}
MergeContents(current_contents, contents) ==
    [k \in DOMAIN current_contents \cup DOMAIN contents |->
        IF k \in DOMAIN contents THEN contents[k] ELSE current_contents[k]]

\* the error check on the fetched card is missing
FetchFailed_Unchecked(current_result) == FALSE

\* `if "error" in current_result`
FetchFailed(current_result) == HasErrorKey(current_result)

\* `if is_mandatory:` ... in place of `if is_mandatory is not None:` ...
UpdateData_Truthy(base, a) ==
    PutIf(a.card_type # None,
    PutIf(TruthyBool(a.is_active),
    PutIf(TruthyInt(a.sort_order),
    PutIf(TruthyBool(a.is_mandatory), base, "isMandatory", a.is_mandatory[1]),
          "sortOrder", a.sort_order[1]),
          "isActive", a.is_active[1]),
          "cardType", a.card_type[1])

\* the fields other than contents that the caller supplied, added to update_data
UpdateData(base, a) ==
    PutOpt(PutOpt(PutOpt(PutOpt(base, "isMandatory", a.is_mandatory),
                         "sortOrder", a.sort_order),
                  "isActive", a.is_active),
           "cardType", a.card_type)

CardEndpoint(card_id) == <<"/api/card/", card_id>>

UpdateArgs ==
    {[card_id |-> id, contents |-> c, is_mandatory |-> m, sort_order |-> so,
      is_active |-> ac, card_type |-> ct] :
        id \in CardIds, c \in OptSet(ContentsDicts), m \in {None, Some(FALSE)},
        so \in {None, Some(0)}, ac \in {None, Some(TRUE)}, ct \in {None, Some("quiz")}}

\* update_card up to its first await
UpdateCard ==
    /\ pc = "idle"
    /\ \E a \in UpdateArgs :
           IF IsNotNone(a.contents)
           THEN /\ tool' = "update_card"
                /\ args' = a
                /\ local' = EmptyDict
                /\ UNCHANGED remote
                /\ trace' = <<Call("http", HttpRequest("GET", CardEndpoint(a.card_id), EmptyDict))>>
                /\ result' = NoResult
                /\ pc' = "get"
           ELSE IF UpdateData(EmptyDict, a) = EmptyDict
           THEN Return("update_card", a, Json(ErrorDict(<<"No update data provided">>)))
           ELSE Request("update_card", a, "PUT", CardEndpoint(a.card_id), UpdateData(EmptyDict, a))

\* update_card from the answer to its GET up to its next await or its return
UpdateCardFetched ==
    /\ pc = "get"
    /\ tool = "update_card"
    /\ \E outcome \in HttpOutcomes(CardBodies) :
          LET current_result == ApiResult(outcome)
              fetched == Append(trace, HttpEvent(outcome))
          IN  IF FetchFailed(current_result)
              THEN /\ trace' = fetched
                   /\ result' = Json(ErrorDict(<<"Failed to fetch card for update: ">>
                                               \o current_result.error[1]))
                   /\ pc' = "done"
              ELSE IF current_result.type # "object"
              THEN \* current_result.get on a list
                   /\ trace' = fetched
                   /\ result' = Raised("AttributeError")
                   /\ pc' = "done"
              ELSE IF current_result.contentsKind = "null"
              THEN \* **None
                   /\ trace' = fetched
                   /\ result' = Raised("TypeError")
                   /\ pc' = "done"
              ELSE LET current_contents ==
                           IF current_result.contentsKind = "absent" THEN EmptyDict
                           ELSE current_result.contents
                       merged_contents == MergeContents(current_contents, args.contents[1])
                       update_data == UpdateData([contents |-> merged_contents], args)
                   IN  /\ trace' = Append(fetched,
                                          Call("http", HttpRequest("PUT", CardEndpoint(args.card_id),
                                                                   update_data)))
                       /\ result' = NoResult
                       /\ pc' = "http"
    /\ UNCHANGED <<tool, args, local, remote>>

(***************************************************************************)
(* get_course, get_card, get_course_cards, get_server_info, echo_message   *)
(***************************************************************************)
GetCourse ==
    /\ pc = "idle"
    /\ \E id \in CourseIds :
           Request("get_course", [course_id |-> id], "GET", <<"/api/course?id=", id>>, EmptyDict)

GetCard ==
    /\ pc = "idle"
    /\ \E id \in CardIds :
           Request("get_card", [card_id |-> id], "GET", CardEndpoint(id), EmptyDict)

GetCourseCards ==
    /\ pc = "idle"
    /\ \E id \in CourseIds :
           Request("get_course_cards", [course_id |-> id], "GET",
                   <<"/api/courses/", id, "/cards">>, EmptyDict)

GetServerInfo ==
    /\ pc = "idle"
    /\ Return("get_server_info", EmptyDict, Text(<<"Super Singularity MCP Server v1.0">>))

EchoMessage ==
    /\ pc = "idle"
    /\ \E message \in {"hello"} :
           Return("echo_message", [message |-> message], Text(<<"Echo: ", message>>))

(***************************************************************************)
(* create_course                                                           *)
(***************************************************************************)
\* str(uuid.uuid4())
Uuids ==
    {<<"3", "f", "2", "a", "9", "c", "1", "e", "-", "7", "b", "4", "d", "-", "4", "e", "6", "a",
       "-", "9", "c", "0", "f", "-", "5", "d", "8", "e", "1", "a", "2", "b", "3", "c", "4", "d">>,
     <<"0", "0", "b", "7", "e", "4", "4", "1", "-", "1", "c", "2", "d", "-", "4", "a", "3", "e",
       "-", "8", "f", "5", "0", "-", "6", "1", "7", "2", "8", "3", "9", "4", "a", "5", "b", "6">>}

COMPANY_ID == "your-company-id-here"

CourseData(a, id) ==
    PutIf(TruthyStr(a.theme_id),
    PutIf(TruthyStr(a.gradient_to_color),
    PutIf(TruthyStr(a.gradient_from_color),
    PutIf(TruthyStr(a.finalized_course_plan),
    PutIf(TruthyStr(a.folder_id),
    PutIf(TruthyStr(a.description),
          [id |-> id, title |-> a.title, companyId |-> COMPANY_ID, duration |-> a.duration,
           isPublished |-> a.is_published, isAutoplay |-> a.is_autoplay,
           isScorable |-> a.is_scorable, createdByAgent |-> TRUE],
          "description", a.description[1]),
          "folderId", a.folder_id[1]),
          "finalizedCoursePlan", a.finalized_course_plan[1]),
          "gradientFromColor", a.gradient_from_color[1]),
          "gradientToColor", a.gradient_to_color[1]),
          "themeId", a.theme_id[1])

CourseArgs ==
    {[title |-> "Course", duration |-> Some(du), description |-> de, folder_id |-> fo,
      finalized_course_plan |-> pl, is_published |-> pu, is_autoplay |-> FALSE,
      is_scorable |-> sc, gradient_from_color |-> gf, gradient_to_color |-> gf,
      theme_id |-> th] :
        du \in {0, 30}, de \in OptStrs, fo \in {None, Some("f1")}, pl \in {None, Some("# plan")},
        pu \in BOOLEAN, sc \in BOOLEAN, gf \in {None, Some("#FF0000")}, th \in {None, Some("th1")}}

CreateCourse ==
    /\ pc = "idle"
    /\ \E a \in CourseArgs, id \in Uuids :
           Request("create_course", a, "POST", <<"/api/createCourse">>, CourseData(a, id))

(***************************************************************************)
(* create_audio_card, create_content_card                                  *)
(***************************************************************************)
GENERATED_BY == "CLAUDE_MCP_SERVER"

\* the producer is never recorded
StampGeneratedBy_Never(contents, key, generated) == contents

\* `if generated is not None:` in place of `if generated:`
StampGeneratedBy_WhenSupplied(contents, key, generated) ==
    PutIf(IsNotNone(generated), contents, key, GENERATED_BY)

\* `if audio_generated: contents["audioGeneratedBy"] = "CLAUDE_MCP_SERVER"` and
\* the same statement for image_generated
StampGeneratedBy(contents, key, generated) ==
    PutIf(TruthyBool(generated), contents, key, GENERATED_BY)

\* the three image tracking statements before the stamp
ImageTracking(contents, a) ==
    PutIf(TruthyStr(a.image_generated_at),
    PutIf(IsNotNone(a.image_generated),
    PutIf(TruthyStr(a.image_prompt),
          contents,
          "imagePrompt", a.image_prompt[1]),
          "imageGenerated", a.image_generated[1]),
          "imageGeneratedAt", a.image_generated_at[1])

AudioContents(a) ==
    StampGeneratedBy(
    ImageTracking(
    StampGeneratedBy(
    PutIf(TruthyStr(a.audio_generated_at),
    PutIf(IsNotNone(a.audio_generated),
    PutIf(TruthyStr(a.audio_script),
    PutIf(TruthyStr(a.background_image_url),
          [_header1 |-> Header(a.title), header1 |-> a.title, audio |-> a.audio_url],
          "image", a.background_image_url[1]),
          "audioScript", a.audio_script[1]),
          "audioGenerated", a.audio_generated[1]),
          "audioGeneratedAt", a.audio_generated_at[1]),
          "audioGeneratedBy", a.audio_generated),
          a),
          "imageGeneratedBy", a.image_generated)

AudioCardData(a) ==
    WithSortOrder([courseId |-> a.course_id, cardType |-> "audio",
                   contents |-> AudioContents(a), isMandatory |-> a.is_mandatory],
                  a.sort_order)

AudioArgs ==
    {[course_id |-> c, audio_url |-> "https://cdn/a.mp3", title |-> "Intro",
      background_image_url |-> bg, audio_script |-> sc, audio_generated |-> ag,
      audio_generated_at |-> aat, image_prompt |-> ip, image_generated |-> ig,
      image_generated_at |-> iat, sort_order |-> so, is_mandatory |-> m] :
        c \in CourseIds, bg \in {None, Some("https://cdn/bg.webp")}, sc \in {None, Some("script")},
        ag \in OptBools, aat \in OptStrs, ip \in OptStrs, ig \in OptBools, iat \in OptStrs,
        so \in OptInts, m \in BOOLEAN}

CreateAudioCard ==
    /\ pc = "idle"
    /\ \E a \in AudioArgs :
           Request("create_audio_card", a, "POST", <<"/api/createCard">>, AudioCardData(a))

\* .replace("<b>", "").replace("</b>", "").replace("<i>", "").replace("</i>", "")
StripTags(text) ==
    Replace(Replace(Replace(Replace(text, <<"<", "b", ">">>, <<>>),
                            <<"<", "/", "b", ">">>, <<>>),
                    <<"<", "i", ">">>, <<>>),
            <<"<", "/", "i", ">">>, <<>>)

\* truthiness of an Optional text: None and "" are falsy
TruthyText(o) == o # None /\ o[1] # <<>>

ContentContents(a) ==
    StampGeneratedBy(
    ImageTracking(
    PutIf(TruthyStr(a.image_url),
    PutIf(TruthyStr(a.image_url),
    PutIf(TruthyText(a.header2_text),
    PutIf(TruthyText(a.header2_text),
          [_header1 |-> Header(a.header1_text), header1 |-> StripTags(a.header1_text)],
          "_header2", Header(a.header2_text[1])),
          "header2", StripTags(a.header2_text[1])),
          "image", a.image_url[1]),
          "align", a.align),
          a),
          "imageGeneratedBy", a.image_generated)

ContentCardData(a) ==
    WithSortOrder([courseId |-> a.course_id, cardType |-> "content",
                   contents |-> ContentContents(a), align |-> a.align,
                   isMandatory |-> a.is_mandatory],
                  a.sort_order)

HeaderTexts ==
    {<<"H", "i">>, <<"<", "b", ">", "H", "i", "<", "/", "b", ">">>,
     <<"<", "<", "i", ">", "b", ">", "H", "i">>}

ContentArgs ==
    {[course_id |-> c, header1_text |-> h1, header2_text |-> h2, image_url |-> iu,
      image_prompt |-> ip, image_generated |-> ig, image_generated_at |-> iat,
      align |-> al, sort_order |-> so, is_mandatory |-> m] :
        c \in CourseIds, h1 \in HeaderTexts, h2 \in OptSet({<<>>, <<"<", "i", ">", "x">>}),
        iu \in {None, Some("https://cdn/i.webp")}, ip \in OptStrs, ig \in OptBools,
        iat \in OptStrs, al \in {"center center", "top"}, so \in OptInts, m \in BOOLEAN}

CreateContentCard ==
    /\ pc = "idle"
    /\ \E a \in ContentArgs :
           Request("create_content_card", a, "POST", <<"/api/createCard">>, ContentCardData(a))

(***************************************************************************)
(* create_form_card, create_video_card, create_link_card                   *)
(***************************************************************************)
FormCardData(a) ==
    WithSortOrder([courseId |-> a.course_id, cardType |-> "form",
                   contents |-> [_header1 |-> Header(a.question)],
                   isMandatory |-> a.is_mandatory],
                  a.sort_order)

CreateFormCard ==
    /\ pc = "idle"
    /\ \E c \in CourseIds, so \in OptInts, m \in BOOLEAN :
           LET a == [course_id |-> c, question |-> "Why?", sort_order |-> so, is_mandatory |-> m]
           IN  Request("create_form_card", a, "POST", <<"/api/createCard">>, FormCardData(a))

VideoCardData(a) ==
    WithSortOrder([courseId |-> a.course_id, cardType |-> "video",
                   contents |-> [video |-> a.video_url], isMandatory |-> a.is_mandatory],
                  a.sort_order)

CreateVideoCard ==
    /\ pc = "idle"
    /\ \E c \in CourseIds, so \in OptInts, m \in BOOLEAN :
           LET a == [course_id |-> c, video_url |-> "https://cdn/v.mp4", sort_order |-> so,
                     is_mandatory |-> m]
           IN  Request("create_video_card", a, "POST", <<"/api/createCard">>, VideoCardData(a))

LinkCardData(a) ==
    WithSortOrder([courseId |-> a.course_id, cardType |-> "link",
                   contents |-> [_header1 |-> Header(a.title), header1 |-> a.title,
                                 link |-> a.link_url, linkcaption |-> a.link_caption]],
                  a.sort_order)

CreateLinkCard ==
    /\ pc = "idle"
    /\ \E c \in CourseIds, cap \in {"Visit Link", "Open"}, so \in OptInts :
           LET a == [course_id |-> c, title |-> "Docs", link_url |-> "https://example.com",
                     link_caption |-> cap, sort_order |-> so]
           IN  Request("create_link_card", a, "POST", <<"/api/createCard">>, LinkCardData(a))

(***************************************************************************)
(* The generation+upload pipelines.                                        *)
(***************************************************************************)
Titles == {<<"M", "y", " ", "S", "o", "n", "g">>, <<"i", "n", "t", "r", "o">>}

\* datetime.now(ist).isoformat()
Timestamps == {"2025-01-01T10:00:00+05:30"}

\* title.replace(" ", "_").lower()
Filename(title) == Lower(Replace(title, <<" ">>, <<"_">>))

\* f"{file_type}/{filename}_{generate_uuid()[:8]}.{file_extension}"
BlobName(file_type, filename, uuid, file_extension) ==
    [folder |-> file_type, filename |-> filename, suffix |-> SubSeq(uuid, 1, 8),
     extension |-> file_extension]

\* outcomes of a provider or storage call: its value, or the exception it raises
StageOutcomes(values) ==
    {[kind |-> "ok", value |-> v, text |-> ""] : v \in values}
    \cup {[kind |-> "error", value |-> v, text |-> "service unavailable"] :
             v \in {CHOOSE x \in values : TRUE}}

\* the exception of a stage is swallowed
StageFailed_Swallowed(outcome) == FALSE

\* the call raised: the `except Exception` of the stage wraps and re-raises
StageFailed(outcome) == outcome.kind # "ok"

\* `except Exception as e: return f"Error: {str(e)}"` of the three generate_* tools
ErrorText(parts) == [kind |-> "error_text", value |-> <<"Error: ">> \o parts]

\* upload_to_azure up to upload_blob
UploadCall(file_data, filename, file_type, file_extension, uuid) ==
    Call("upload", [file_data |-> file_data,
                    blob_name |-> BlobName(file_type, filename, uuid, file_extension),
                    overwrite |-> TRUE])

\* generate_audio_from_text -> generate_and_upload_audio -> generate_audio_with_elevenlabs
GenerateAudioFromText ==
    /\ pc = "idle"
    /\ \E text \in {"Welcome"}, title \in Titles, generated_at \in Timestamps :
           /\ tool' = "generate_audio_from_text"
           /\ args' = [text |-> text, title |-> title]
           /\ local' = [generated_at |-> generated_at]
           /\ UNCHANGED remote
           /\ trace' = <<Call("synth", [text |-> text, model_id |-> "eleven_v3"])>>
           /\ result' = NoResult
           /\ pc' = "synth"

AudioBytes == {"mp3-bytes"}

\* generate_and_upload_audio from the synthesis result to the upload
SynthResponse ==
    /\ pc = "synth"
    /\ \E outcome \in StageOutcomes(AudioBytes), uuid \in Uuids :
           IF StageFailed(outcome)
           THEN /\ trace' = Append(trace, Fail("synth", outcome))
                /\ result' = ErrorText(<<"ElevenLabs audio generation failed: ", outcome.text>>)
                /\ pc' = "done"
           ELSE /\ trace' = trace \o <<Ok("synth", outcome),
                                       UploadCall(outcome.value, Filename(args.title),
                                                  "audio", "mp3", uuid)>>
                /\ result' = NoResult
                /\ pc' = "upload"
    /\ UNCHANGED <<tool, args, local, remote>>

SquareSize == <<"1", "0", "2", "4", "x", "1", "0", "2", "4">>

PortraitSize == <<"1", "0", "2", "4", "x", "1", "5", "3", "6">>

LandscapeSize == <<"1", "5", "3", "6", "x", "1", "0", "2", "4">>

\* portrait and landscape exchanged
AspectToSize_Swapped(aspect_ratio) ==
    CASE Lower(aspect_ratio) = <<"s", "q", "u", "a", "r", "e">> -> SquareSize
      [] Lower(aspect_ratio) = <<"p", "o", "r", "t", "r", "a", "i", "t">> -> LandscapeSize
      [] Lower(aspect_ratio) = <<"l", "a", "n", "d", "s", "c", "a", "p", "e">> -> PortraitSize
      [] OTHER -> SquareSize

\* the if/elif chain on aspect_ratio.lower()
AspectToSize(aspect_ratio) ==
    CASE Lower(aspect_ratio) = <<"s", "q", "u", "a", "r", "e">> -> SquareSize
      [] Lower(aspect_ratio) = <<"p", "o", "r", "t", "r", "a", "i", "t">> -> PortraitSize
      [] Lower(aspect_ratio) = <<"l", "a", "n", "d", "s", "c", "a", "p", "e">> -> LandscapeSize
      [] OTHER -> SquareSize

ValidFormats == {"png", "jpg"}

\* re.match(r'^\d+x\d+$', size)
MatchesSizePattern(size) ==
    \E i \in 2..(Len(size) - 1) :
        /\ size[i] = "x"
        /\ \A j \in (1..Len(size)) \ {i} : size[j] \in Digits

\* generate_and_upload_image -> generate_image_with_azure_openai up to its request
StartImagePipeline(t, a, generated_at, prompt, size, output_format) ==
    /\ tool' = t
    /\ args' = a
    /\ local' = [generated_at |-> generated_at]
    /\ UNCHANGED remote
    /\ IF ~MatchesSizePattern(size)
       THEN /\ trace' = <<>>
            /\ result' = ErrorText(<<"Azure OpenAI image generation failed: ",
                                     "Invalid size format">>)
            /\ pc' = "done"
       ELSE IF output_format \notin ValidFormats
       THEN /\ trace' = <<>>
            /\ result' = ErrorText(<<"Azure OpenAI image generation failed: ",
                                     "Invalid output format">>)
            /\ pc' = "done"
       ELSE /\ trace' = <<Call("imagegen", [prompt |-> prompt, size |-> size,
                                            quality |-> "medium", output_compression |-> 100,
                                            output_format |-> output_format, n |-> 1])>>
            /\ result' = NoResult
            /\ pc' = "imagegen"

AspectRatios ==
    {<<"s", "q", "u", "a", "r", "e">>, <<"p", "o", "r", "t", "r", "a", "i", "t">>,
     <<"l", "a", "n", "d", "s", "c", "a", "p", "e">>, <<"P", "o", "r", "t", "r", "a", "i", "t">>,
     <<"L", "A", "N", "D", "S", "C", "A", "P", "E">>, <<"b", "o", "g", "u", "s">>, <<>>,
     <<"w", "i", "d", "e">>}

GenerateImageFromText ==
    /\ pc = "idle"
    /\ \E prompt \in {"a red fox"}, title \in Titles, ar \in OptSet(AspectRatios),
          fmt \in OptSet({"png", "jpg", "gif", "PNG"}), generated_at \in Timestamps :
           LET a == [prompt |-> prompt, title |-> title, aspect_ratio |-> ar,
                     output_format |-> fmt]
               aspect_ratio == IF ar = None THEN <<"s", "q", "u", "a", "r", "e">> ELSE ar[1]
               output_format == IF fmt = None THEN "png" ELSE fmt[1]
               size == AspectToSize(aspect_ratio)
           IN  IF output_format \notin ValidFormats
               THEN Return("generate_image_from_text", a,
                           ErrorText(<<"Invalid output format '", output_format,
                                       "'. Must be 'png' or 'jpg'">>))
               ELSE StartImagePipeline("generate_image_from_text", a, generated_at,
                                       prompt, size, output_format)

GenerateBackgroundImageForAudio ==
    /\ pc = "idle"
    /\ \E prompt \in {"a calm lake"}, title \in Titles, generated_at \in Timestamps :
           StartImagePipeline("generate_background_image_for_audio",
                              [prompt |-> prompt, title |-> title], generated_at,
                              prompt, PortraitSize, "png")

\* what the provider's bytes decode to: an image of some mode, or nothing PIL can open
ImageModes == {"RGB", "RGBA", "P", "L", "LA"}

ProviderImages ==
    {[decodable |-> TRUE, mode |-> m] : m \in ImageModes}
    \cup {[decodable |-> FALSE, mode |-> "RGB"]}

\* answers of the image endpoint: result["data"] as a list of decoded images
ImageOutcomes ==
    {[kind |-> "ok", value |-> <<img>>, text |-> ""] : img \in ProviderImages}
    \cup {[kind |-> "ok", value |-> <<>>, text |-> ""],
          [kind |-> "error", value |-> <<>>, text |-> "HTTP 429"]}

\* `if image.mode in ("RGBA", "P"): image = image.convert("RGB")`
ConvertedMode(mode) == IF mode \in {"RGBA", "P"} THEN "RGB" ELSE mode

\* convert_image_to_webp: the image handed to save(format="WebP", quality=quality)
ConvertImageToWebp(image, quality) ==
    [format |-> "WebP", mode |-> ConvertedMode(image.mode), quality |-> quality, optimize |-> TRUE]

\* generate_and_upload_image from the provider's answer to the upload
ImageGenResponse ==
    /\ pc = "imagegen"
    /\ \E outcome \in ImageOutcomes, uuid \in Uuids :
           IF StageFailed(outcome)
           THEN /\ trace' = Append(trace, Fail("imagegen", outcome))
                /\ result' = ErrorText(<<"Azure OpenAI image generation failed: ", outcome.text>>)
                /\ pc' = "done"
           ELSE IF Len(outcome.value) = 0
           THEN /\ trace' = Append(trace, Fail("imagegen", outcome))
                /\ result' = ErrorText(<<"Azure OpenAI image generation failed: ",
                                         "No image data returned from Azure OpenAI">>)
                /\ pc' = "done"
           ELSE IF ~outcome.value[1].decodable
           THEN /\ trace' = trace \o <<Ok("imagegen", outcome), Fail("transcode", outcome)>>
                /\ result' = ErrorText(<<"Image conversion to WebP failed: ",
                                         "cannot identify image file">>)
                /\ pc' = "done"
           ELSE LET webp_data == ConvertImageToWebp(outcome.value[1], 85)
                IN  /\ trace' = trace \o <<Ok("imagegen", outcome),
                                           Ok("transcode", webp_data),
                                           UploadCall(webp_data, Filename(args.title),
                                                      "images", "webp", uuid)>>
                    /\ result' = NoResult
                    /\ pc' = "upload"
    /\ UNCHANGED <<tool, args, local, remote>>

AZURE_CONTAINER_NAME == "audio-files"

\* the generate_* tool from the storage answer to its return
UploadResponse ==
    /\ pc = "upload"
    /\ \E outcome \in StageOutcomes({"stored"}) :
           IF StageFailed(outcome)
           THEN /\ trace' = Append(trace, Fail("upload", outcome))
                /\ result' = ErrorText(<<"Azure Storage upload failed: ", outcome.text>>)
           ELSE /\ trace' = Append(trace, Ok("upload", outcome))
                /\ result' = [kind |-> "message",
                              value |-> [url |-> [container |-> AZURE_CONTAINER_NAME,
                                                  blob |-> trace[Len(trace)].data.blob_name],
                                         generated_at |-> local.generated_at]]
    /\ pc' = "done"
    /\ UNCHANGED <<tool, args, local, remote>>

(***************************************************************************)
(* The server.                                                             *)
(***************************************************************************)
Init ==
    /\ tool = "none"
    /\ args = EmptyDict
    /\ local = EmptyDict
    /\ pc = "idle"
    /\ trace = <<>>
    /\ result = NoResult
    /\ remote = EmptyDict

Next ==
    \/ GetCourse
    \/ GetCard
    \/ GetCourseCards
    \/ GetServerInfo
    \/ EchoMessage
    \/ CreateCourse
    \/ CreateAudioCard
    \/ CreateContentCard
    \/ CreateFormCard
    \/ CreateVideoCard
    \/ CreateLinkCard
    \/ CreateQuizCard
    \/ CreatePollCard
    \/ UpdateCard
    \/ UpdateCardFetched
    \/ GenerateAudioFromText
    \/ GenerateImageFromText
    \/ GenerateBackgroundImageForAudio
    \/ SynthResponse
    \/ ImageGenResponse
    \/ UploadResponse
    \/ ApiResponse
    \/ Finish

Spec == Init /\ [][Next]_vars

(***************************************************************************)
(* make_api_request on its own: any method text, any outcome of the        *)
(* exchange.  A 2xx answer whose body is not JSON is the outcome           *)
(* "badjson"; 302 and 404 are further non-2xx answers.                     *)
(***************************************************************************)
Methods ==
    {<<"G", "E", "T">>, <<"g", "e", "t">>, <<"P", "O", "S", "T">>, <<"P", "o", "s", "t">>,
     <<"P", "U", "T">>, <<"D", "E", "L", "E", "T", "E">>, <<"P", "A", "T", "C", "H">>,
     <<"H", "E", "A", "D">>, <<>>}

\* the branch of the if/elif chain on method.upper(); "none" is the else branch
HttpVerb(method) ==
    CASE Upper(method) = <<"G", "E", "T">>      -> "GET"
      [] Upper(method) = <<"P", "O", "S", "T">> -> "POST"
      [] Upper(method) = <<"P", "U", "T">>      -> "PUT"
      [] OTHER                                  -> "none"

RawOutcomes ==
    HttpOutcomes(CardBodies)
    \cup {[kind |-> "status", body |-> NoBody, status |-> "404", text |-> "Not Found"],
          [kind |-> "status", body |-> NoBody, status |-> "302", text |-> ""],
          [kind |-> "badjson", body |-> NoBody, status |-> "200", text |-> "Expecting value"]}

\* what make_api_request hands back to its caller
Value(v) == [kind |-> "value", value |-> v]

\* make_api_request up to the request it awaits, or its return without one
MakeApiRequest ==
    /\ pc = "idle"
    /\ \E method \in Methods, endpoint \in {<<"/api/card/", "card1">>, <<"/api/createCard">>},
          data \in OptSet({[cardType |-> "form"], [isActive |-> TRUE]}) :
           /\ tool' = "make_api_request"
           /\ args' = [method |-> method, endpoint |-> endpoint, data |-> data]
           /\ local' = EmptyDict
           /\ UNCHANGED remote
           /\ IF HttpVerb(method) = "none"
              THEN /\ trace' = <<>>
                   /\ result' = Value(ErrorDict(<<"Unsupported HTTP method: ", method>>))
                   /\ pc' = "done"
              ELSE /\ trace' = <<Call("http",
                                      HttpRequest(HttpVerb(method), endpoint,
                                                  IF HttpVerb(method) = "GET" \/ data = None
                                                  THEN EmptyDict ELSE data[1]))>>
                   /\ result' = NoResult
                   /\ pc' = "api"

\* make_api_request from the end of the exchange to its return
MakeApiRequestReturn ==
    /\ pc = "api"
    /\ \E outcome \in RawOutcomes :
          /\ trace' = Append(trace, HttpEvent(outcome))
          /\ result' = Value(ApiResult(outcome))
    /\ pc' = "done"
    /\ UNCHANGED <<tool, args, local, remote>>

NextApi ==
    \/ MakeApiRequest
    \/ MakeApiRequestReturn
    \/ Finish

SpecApi == Init /\ [][NextApi]_vars

(***************************************************************************)
(* Vocabulary of the properties.                                           *)
(***************************************************************************)
(* Two invocations of update_card against the same card, running           *)
(* concurrently: the server awaits inside each one, so the steps of one    *)
(* interleave with the steps of the other.  Here args, pc, trace and       *)
(* result hold one value per invocation, and `remote` is the card on the   *)
(* remote side: its contents now and the contents it had before the two    *)
(* invocations.  A request takes effect on the remote side at the moment   *)
(* its answer is produced.                                                 *)
(***************************************************************************)
Procs == {1, 2}

\* update_card(card_id, contents = {...}) with a non-empty partial
ConcurrentArgs ==
    {a \in UpdateArgs : /\ a.contents # None
                        /\ a.contents[1] # EmptyDict
                        /\ a.is_mandatory = None /\ a.sort_order = None
                        /\ a.is_active = None /\ a.card_type = None}

\* the remote API answers GET /api/card/{id} with the card it holds, or fails
GetOutcomes(stored) == HttpOutcomes({JsonObject(None, "dict", stored)})

\* PUT /api/card/{id} replaces the stored contents by the contents sent
\* (the reason update_card fetches and merges before it sends)
RemotePut(stored, update_data) == update_data.contents

\* the remote API applies the PUT and answers the card, or rejects it, or fails
PutOutcomes(stored, update_data) ==
    HttpOutcomes({JsonObject(None, "dict", RemotePut(stored, update_data)),
                  JsonObject(Some(<<"rejected">>), "absent", EmptyDict)})

InitConcurrent ==
    /\ tool = "update_card"
    /\ args \in {f \in [Procs -> ConcurrentArgs] :
                    /\ f[1].card_id = f[2].card_id
                    /\ DOMAIN f[1].contents[1] \cap DOMAIN f[2].contents[1] = {}}
    /\ local = EmptyDict
    /\ pc = [p \in Procs |-> "idle"]
    /\ trace = [p \in Procs |-> <<>>]
    /\ result = [p \in Procs |-> NoResult]
    /\ \E stored \in ContentsDicts :
           remote = [contents |-> stored, original |-> stored]

\* update_card, contents given, up to its first await
UpdateCardOf(p) ==
    /\ pc[p] = "idle"
    /\ IsNotNone(args[p].contents)
    /\ trace' = [trace EXCEPT ![p] =
                    <<Call("http", HttpRequest("GET", CardEndpoint(args[p].card_id), EmptyDict))>>]
    /\ pc' = [pc EXCEPT ![p] = "get"]
    /\ UNCHANGED <<tool, args, local, result, remote>>

\* the remote side answers the GET; update_card runs up to its next await or its return
UpdateCardFetchedOf(p) ==
    /\ pc[p] = "get"
    /\ \E outcome \in GetOutcomes(remote.contents) :
          LET current_result == ApiResult(outcome)
              fetched == Append(trace[p], HttpEvent(outcome))
          IN  IF FetchFailed(current_result)
              THEN /\ trace' = [trace EXCEPT ![p] = fetched]
                   /\ result' = [result EXCEPT ![p] =
                                    Json(ErrorDict(<<"Failed to fetch card for update: ">>
                                                   \o current_result.error[1]))]
                   /\ pc' = [pc EXCEPT ![p] = "done"]
                   /\ UNCHANGED remote
              ELSE LET current_contents ==
                           IF current_result.contentsKind = "absent" THEN EmptyDict
                           ELSE current_result.contents
                       merged_contents == MergeContents(current_contents, args[p].contents[1])
                       update_data == UpdateData([contents |-> merged_contents], args[p])
                   IN  /\ trace' = [trace EXCEPT ![p] =
                                       Append(fetched,
                                              Call("http", HttpRequest("PUT", CardEndpoint(args[p].card_id),
                                                                       update_data)))]
                       /\ result' = [result EXCEPT ![p] = NoResult]
                       /\ pc' = [pc EXCEPT ![p] = "http"]
                       /\ UNCHANGED remote
    /\ UNCHANGED <<tool, args, local>>

\* the remote side answers the PUT; update_card returns json.dumps(result, indent=2)
ApiResponseOf(p) ==
    /\ pc[p] = "http"
    /\ LET update_data == trace[p][Len(trace[p])].data.body
       IN  \E outcome \in PutOutcomes(remote.contents, update_data) :
              /\ trace' = [trace EXCEPT ![p] = Append(@, HttpEvent(outcome))]
              /\ result' = [result EXCEPT ![p] = Json(ApiResult(outcome))]
              /\ remote' = IF ApiFailed(outcome) \/ HasErrorKey(outcome.body)
                           THEN remote
                           ELSE [remote EXCEPT !.contents = RemotePut(@, update_data)]
    /\ pc' = [pc EXCEPT ![p] = "done"]
    /\ UNCHANGED <<tool, args, local>>

NextConcurrent ==
    \E p \in Procs :
        \/ UpdateCardOf(p)
        \/ UpdateCardFetchedOf(p)
        \/ ApiResponseOf(p)

SpecConcurrent == InitConcurrent /\ [][NextConcurrent]_vars

(***************************************************************************)
Running == pc # "idle"

Calls(stage) == {i \in 1..Len(trace) : trace[i].ev = "call" /\ trace[i].stage = stage}

HttpCalls(method) == {i \in Calls("http") : trace[i].data.method = method}

ExternalStages == {"http", "synth", "imagegen", "upload"}

\* the outcome recorded at position i is a failure of its stage: the external
\* service did not answer with success, or the step was recorded as failed
FailureAt(i) ==
    \/ trace[i].ev = "fail"
    \/ trace[i].ev = "ok" /\ trace[i].stage \in ExternalStages /\ trace[i].data.kind # "ok"

SuccessAt(i, stage) ==
    /\ trace[i].stage = stage
    /\ trace[i].ev = "ok"
    /\ stage \in ExternalStages => trace[i].data.kind = "ok"

\* the invocation has returned an error value: {"error": ...} or "Error: ..."
ReturnedError ==
    /\ pc = "done"
    /\ \/ result.kind = "json" /\ result.value.type = "object" /\ result.value.error # None
       \/ result.kind = "error_text"

(***************************************************************************)
(* C1: a create_quiz_card call whose options list has fewer than 2 or more *)
(* than 4 elements, or whose correct_answer is not one of the options      *)
(* (compared exactly), returns an error value and issues no HTTP request.  *)
(***************************************************************************)
QuizInputRejected ==
    /\ tool = "create_quiz_card"
    /\ \/ Len(args.options) < 2
       \/ Len(args.options) > 4
       \/ \A i \in 1..Len(args.options) : args.options[i] # args.correct_answer

C1_QuizRejectsBadInput ==
    QuizInputRejected => ReturnedError /\ trace = <<>>

\* the answer differs from an option only by case
C1_Witness ==
    /\ tool = "create_quiz_card"
    /\ args.options = <<"a", "a", "a">>
    /\ args.correct_answer = "A"
    /\ ReturnedError
    /\ trace = <<>>

(***************************************************************************)
(* C2: when update_card is called with contents and its GET succeeds, the  *)
(* contents of the PUT it sends is the shallow merge of the fetched and    *)
(* the caller's contents: the keys are those of either, a caller's key has *)
(* the caller's value (nested values replaced whole), any other key keeps  *)
(* the fetched value.                                                      *)
(***************************************************************************)
ContentsUpdate == tool = "update_card" /\ args.contents # None

\* the contents of the card the GET returned ({} when the card has none)
FetchedContents ==
    IF trace[2].data.body.contentsKind = "dict" THEN trace[2].data.body.contents ELSE EmptyDict

C2_PutIsShallowMerge ==
    ContentsUpdate =>
        \A i \in HttpCalls("PUT") :
            LET sent == trace[i].data.body.contents
                partial == args.contents[1]
            IN  /\ DOMAIN sent = DOMAIN FetchedContents \cup DOMAIN partial
                /\ \A k \in DOMAIN partial : sent[k] = partial[k]
                /\ \A k \in DOMAIN FetchedContents \ DOMAIN partial : sent[k] = FetchedContents[k]

\* a server-only key, a caller-only key and a nested value both sides have
C2_Witness ==
    /\ ContentsUpdate
    /\ HttpCalls("PUT") # {}
    /\ args.contents[1] = [_header1 |-> [text |-> "t"], correct |-> <<"c">>]
    /\ FetchedContents = [_header1 |-> [text |-> "u", size |-> "medium"], options |-> <<"a", "b">>]
    /\ trace[3].data.body.contents =
           [_header1 |-> [text |-> "t"], options |-> <<"a", "b">>, correct |-> <<"c">>]

(***************************************************************************)
(* C3: in an update_card call with contents, a GET that returns an error   *)
(* ends the call with that error and no PUT; a PUT is sent only after the  *)
(* GET of the same call has succeeded.                                     *)
(***************************************************************************)
\* the value make_api_request returned for the GET carries an "error" key
GetReturnedError ==
    /\ Len(trace) >= 2
    /\ trace[2].stage = "http"
    /\ \/ trace[2].data.kind # "ok"
       \/ trace[2].data.body.type = "object" /\ trace[2].data.body.error # None

C3_NoPutAfterFailedGet ==
    ContentsUpdate =>
        /\ GetReturnedError =>
              /\ HttpCalls("PUT") = {}
              /\ ReturnedError
              /\ result.value.error[1][1] = "Failed to fetch card for update: "
              /\ trace[2].data.kind = "status" => result.value.error[1][2] = "HTTP "
              /\ trace[2].data.kind = "transport" => result.value.error[1][2] = "Request failed: "
        /\ \A i \in HttpCalls("PUT") :
              /\ i = 3
              /\ trace[1].ev = "call" /\ trace[1].data.method = "GET"
              /\ trace[2].ev = "ok" /\ ~GetReturnedError

C3_Witness ==
    /\ ContentsUpdate
    /\ GetReturnedError
    /\ trace[2].data.kind = "status"
    /\ pc = "done"
    /\ HttpCalls("PUT") = {}

(***************************************************************************)
(* C4: the contents create_audio_card and create_content_card send carry   *)
(* imageGeneratedBy = "CLAUDE_MCP_SERVER" whenever image_generated is      *)
(* true, and (audio card) audioGeneratedBy = "CLAUDE_MCP_SERVER" whenever  *)
(* audio_generated is true, whatever the other arguments are.              *)
(***************************************************************************)
ProvenanceCard == tool \in {"create_audio_card", "create_content_card"}

SentContents == trace[1].data.body.contents

C4_GeneratedByStamped ==
    ProvenanceCard =>
        /\ args.image_generated = Some(TRUE) =>
              /\ "imageGeneratedBy" \in DOMAIN SentContents
              /\ SentContents.imageGeneratedBy = "CLAUDE_MCP_SERVER"
        /\ (tool = "create_audio_card" /\ args.audio_generated = Some(TRUE)) =>
              /\ "audioGeneratedBy" \in DOMAIN SentContents
              /\ SentContents.audioGeneratedBy = "CLAUDE_MCP_SERVER"

\* both flags true and nothing else about the media supplied
C4_Witness ==
    /\ tool = "create_audio_card"
    /\ args.image_generated = Some(TRUE)
    /\ args.audio_generated = Some(TRUE)
    /\ args.image_prompt = None
    /\ args.audio_generated_at = None
    /\ SentContents.imageGeneratedBy = "CLAUDE_MCP_SERVER"
    /\ SentContents.audioGeneratedBy = "CLAUDE_MCP_SERVER"

(***************************************************************************)
(* C5: the provenance fields of the contents create_audio_card and         *)
(* create_content_card send.  As claimed: without image_generated = true   *)
(* none of imagePrompt, imageGenerated, imageGeneratedAt, imageGeneratedBy *)
(* is present, and without audio_generated = true none of audioGenerated,  *)
(* audioGeneratedAt, audioGeneratedBy is.                                  *)
(***************************************************************************)
ImageProvenanceKeys == {"imagePrompt", "imageGenerated", "imageGeneratedAt", "imageGeneratedBy"}

AudioProvenanceKeys == {"audioGenerated", "audioGeneratedAt", "audioGeneratedBy"}

C5_ProvenanceOnlyWhenFlagTrue ==
    ProvenanceCard =>
        /\ args.image_generated # Some(TRUE) => DOMAIN SentContents \cap ImageProvenanceKeys = {}
        /\ (tool = "create_audio_card" /\ args.audio_generated # Some(TRUE)) =>
              DOMAIN SentContents \cap AudioProvenanceKeys = {}

(***************************************************************************)
(* C5 as amended: only the "generated by" field depends on the flag being  *)
(* true.  imageGeneratedBy is present exactly when image_generated is      *)
(* true; imageGenerated is present exactly when image_generated is         *)
(* supplied, with the caller's value (false included); imagePrompt and     *)
(* imageGeneratedAt are present exactly when a non-empty value is          *)
(* supplied for them, whatever the flag is.  The same holds for the three  *)
(* audio fields of create_audio_card.                                      *)
(***************************************************************************)
\* key k is in the sent contents exactly when `present`, and then has value v
SentExactly(k, present, v) ==
    /\ k \in DOMAIN SentContents <=> present
    /\ present => SentContents[k] = v

NonEmpty(o) == o # None /\ o # Some("")

C5_ProvenanceAsSupplied ==
    ProvenanceCard =>
        /\ SentExactly("imageGeneratedBy", args.image_generated = Some(TRUE), "CLAUDE_MCP_SERVER")
        /\ SentExactly("imageGenerated", args.image_generated # None, args.image_generated[1])
        /\ SentExactly("imagePrompt", NonEmpty(args.image_prompt), args.image_prompt[1])
        /\ SentExactly("imageGeneratedAt", NonEmpty(args.image_generated_at),
                       args.image_generated_at[1])
        /\ tool = "create_audio_card" =>
              /\ SentExactly("audioGeneratedBy", args.audio_generated = Some(TRUE),
                             "CLAUDE_MCP_SERVER")
              /\ SentExactly("audioGenerated", args.audio_generated # None,
                             args.audio_generated[1])
              /\ SentExactly("audioGeneratedAt", NonEmpty(args.audio_generated_at),
                             args.audio_generated_at[1])
        /\ tool = "create_content_card" => DOMAIN SentContents \cap AudioProvenanceKeys = {}

\* the flag is false: the prompt and the flag are sent, the producer is not
C5_Witness ==
    /\ tool = "create_content_card"
    /\ args.image_generated = Some(FALSE)
    /\ args.image_prompt = Some("s")
    /\ args.image_generated_at = None
    /\ DOMAIN SentContents \cap ImageProvenanceKeys = {"imagePrompt", "imageGenerated"}
    /\ SentContents.imageGenerated = FALSE

(***************************************************************************)
(* C6: every request that creates or updates a quiz card carries contents  *)
(* of the quiz shape: options has 2 to 4 elements and correct is a list of *)
(* one element that is one of the options.  Stated for every POST and PUT  *)
(* whose body names the card type "quiz" and has contents.                 *)
(***************************************************************************)
QuizShape(contents) ==
    /\ {"options", "correct"} \subseteq DOMAIN contents
    /\ Len(contents.options) \in 2..4
    /\ Len(contents.correct) = 1
    /\ \E i \in 1..Len(contents.options) : contents.options[i] = contents.correct[1]

C6_QuizRequestsHaveQuizShape ==
    \A i \in HttpCalls("POST") \cup HttpCalls("PUT") :
        LET body == trace[i].data.body
        IN  ({"cardType", "contents"} \subseteq DOMAIN body /\ body.cardType = "quiz")
                => QuizShape(body.contents)

(***************************************************************************)
(* C7: a create_poll_card call with fewer than 2 or more than 4 options    *)
(* returns an error value and issues no HTTP request; any other call       *)
(* issues exactly one POST, whose contents.options is the caller's list.   *)
(***************************************************************************)
C7_PollOptionCount ==
    tool = "create_poll_card" =>
        IF Len(args.options) < 2 \/ Len(args.options) > 4
        THEN ReturnedError /\ trace = <<>>
        ELSE /\ Cardinality(Calls("http")) = 1
             /\ HttpCalls("POST") = {1}
             /\ trace[1].data.body.contents.options = args.options

\* one option too many
C7_Witness ==
    /\ tool = "create_poll_card"
    /\ Len(args.options) = 5
    /\ ReturnedError
    /\ result.value.error[1] = <<"Poll must have 2-4 options">>
    /\ trace = <<>>

(***************************************************************************)
(* C8: the pipelines are ordered and all-or-nothing.  The storage upload   *)
(* of generate_and_upload_audio is issued only after the synthesis has     *)
(* succeeded; that of generate_and_upload_image only after the generation  *)
(* and then the transcoding have succeeded.  When synthesis, generation or *)
(* transcoding fails, the invocation uploads nothing and ends with the     *)
(* error of that stage.                                                    *)
(***************************************************************************)
ImageTools == {"generate_image_from_text", "generate_background_image_for_audio"}

PipelineTools == {"generate_audio_from_text"} \cup ImageTools

StageErrorPrefix(stage) ==
    CASE stage = "synth"     -> "ElevenLabs audio generation failed: "
      [] stage = "imagegen"  -> "Azure OpenAI image generation failed: "
      [] stage = "transcode" -> "Image conversion to WebP failed: "
      [] stage = "upload"    -> "Azure Storage upload failed: "

C8_UploadOnlyAfterEarlierStages ==
    tool \in PipelineTools =>
        /\ \A i \in Calls("upload") :
              IF tool = "generate_audio_from_text"
              THEN \E j \in 1..(i - 1) : SuccessAt(j, "synth")
              ELSE \E j \in 1..(i - 1), k \in 1..(i - 1) :
                      /\ j < k
                      /\ SuccessAt(j, "imagegen") /\ Len(trace[j].data.value) > 0
                      /\ SuccessAt(k, "transcode")
        /\ \A i \in 1..Len(trace) :
              (FailureAt(i) /\ trace[i].stage \in {"synth", "imagegen", "transcode"}) =>
                  /\ Calls("upload") = {}
                  /\ ReturnedError
                  /\ result.value[2] = StageErrorPrefix(trace[i].stage)

\* the image was generated and could not be transcoded
C8_Witness ==
    /\ tool \in ImageTools
    /\ Len(trace) = 3
    /\ SuccessAt(2, "imagegen")
    /\ trace[3].stage = "transcode" /\ trace[3].ev = "fail"
    /\ Calls("upload") = {}
    /\ ReturnedError

(***************************************************************************)
(* C9: nothing is retried.  In one invocation speech synthesis, image      *)
(* generation and storage upload are each called at most once; every tool  *)
(* other than update_card sends at most one request to the remote API;     *)
(* update_card sends at most one GET and at most one PUT, the GET first.   *)
(* Once a stage has failed the invocation makes no further external call   *)
(* and ends with an error value.                                           *)
(***************************************************************************)
C9_NoRetry ==
    Running =>
        /\ \A stage \in {"synth", "imagegen", "upload"} : Cardinality(Calls(stage)) <= 1
        /\ tool # "update_card" => Cardinality(Calls("http")) <= 1
        /\ tool = "update_card" =>
              /\ Cardinality(HttpCalls("GET")) <= 1
              /\ Cardinality(HttpCalls("PUT")) <= 1
              /\ Calls("http") = HttpCalls("GET") \cup HttpCalls("PUT")
              /\ \A g \in HttpCalls("GET"), p \in HttpCalls("PUT") : g < p
        /\ \A i \in 1..Len(trace) :
              FailureAt(i) =>
                  /\ \A j \in (i + 1)..Len(trace) : trace[j].ev # "call"
                  /\ ReturnedError

\* update_card: the GET succeeded, the PUT failed, and that is the end
C9_Witness ==
    /\ tool = "update_card"
    /\ Len(trace) = 4
    /\ SuccessAt(2, "http")
    /\ FailureAt(4)
    /\ trace[4].data.kind = "transport"
    /\ ReturnedError

(***************************************************************************)
(* C10: generate_image_from_text with a valid output format asks the image *)
(* provider for the size its aspect_ratio names (compared ignoring case):  *)
(* 1024x1024 for square or no value, 1024x1536 for portrait, 1536x1024 for *)
(* landscape, and 1024x1024 for any other value, which is not an error.    *)
(***************************************************************************)
FormatAccepted ==
    args.output_format = None \/ args.output_format \in {Some("png"), Some("jpg")}

RequestedSize == trace[1].data.size

C10_AspectRatioToSize ==
    (tool = "generate_image_from_text" /\ FormatAccepted) =>
        /\ Len(trace) >= 1
        /\ trace[1].stage = "imagegen" /\ trace[1].ev = "call"
        /\ LET name == IF args.aspect_ratio = None THEN <<>> ELSE Lower(args.aspect_ratio[1])
           IN  /\ name = <<"p", "o", "r", "t", "r", "a", "i", "t">> =>
                      RequestedSize = <<"1", "0", "2", "4", "x", "1", "5", "3", "6">>
               /\ name = <<"l", "a", "n", "d", "s", "c", "a", "p", "e">> =>
                      RequestedSize = <<"1", "5", "3", "6", "x", "1", "0", "2", "4">>
               /\ name \notin {<<"p", "o", "r", "t", "r", "a", "i", "t">>,
                               <<"l", "a", "n", "d", "s", "c", "a", "p", "e">>} =>
                      RequestedSize = <<"1", "0", "2", "4", "x", "1", "0", "2", "4">>

\* an unrecognized value: the square size is requested and the pipeline runs on
C10_Witness ==
    /\ tool = "generate_image_from_text"
    /\ args.aspect_ratio = Some(<<"b", "o", "g", "u", "s">>)
    /\ args.output_format = Some("jpg")
    /\ pc = "upload"
    /\ RequestedSize = <<"1", "0", "2", "4", "x", "1", "0", "2", "4">>

(***************************************************************************)
(* C11 (under SpecApi): make_api_request always returns a value and never  *)
(* raises.  For a method that is not GET, POST or PUT (compared ignoring   *)
(* case) it returns the unsupported-method error and performs no request;  *)
(* for a non-2xx answer it returns an error with the HTTP status and the   *)
(* response text; for a transport failure an error with the failure        *)
(* description; only a 2xx answer yields the decoded JSON body.            *)
(***************************************************************************)
ApiCallDone == tool = "make_api_request" /\ pc = "done"

MethodIsSupported ==
    Upper(args.method) \in {<<"G", "E", "T">>, <<"P", "O", "S", "T">>, <<"P", "U", "T">>}

C11_ApiRequestAlwaysReturns ==
    /\ (tool = "make_api_request" /\ pc = "api") => MethodIsSupported /\ Len(trace) = 1
    /\ ApiCallDone =>
          /\ result.kind = "value"
          /\ ~MethodIsSupported =>
                /\ trace = <<>>
                /\ result.value.error = Some(<<"Unsupported HTTP method: ", args.method>>)
          /\ MethodIsSupported =>
                /\ Len(trace) = 2
                /\ Cardinality(Calls("http")) = 1
                /\ LET outcome == trace[2].data
                   IN  /\ outcome.kind = "ok" => result.value = outcome.body
                       /\ outcome.kind = "status" =>
                             result.value.error =
                                 Some(<<"HTTP ", outcome.status, ": ", outcome.text>>)
                       /\ outcome.kind \in {"transport", "badjson"} =>
                             result.value.error = Some(<<"Request failed: ", outcome.text>>)

\* a 404 answer to a lower-case "get"
C11_Witness ==
    /\ ApiCallDone
    /\ args.method = <<"g", "e", "t">>
    /\ Len(trace) = 2
    /\ trace[2].data.status = "404"
    /\ result.value.error = Some(<<"HTTP ", "404", ": ", "Not Found">>)

(***************************************************************************)
(* C12: every tool invocation ends by returning a result, a success        *)
(* payload or message or one error string, and never by an exception       *)
(* leaving the tool, whatever the external stages answer.                  *)
(***************************************************************************)
C12_EveryToolReturns ==
    pc = "done" =>
        /\ result.kind # "raised"
        /\ result.kind \in {"json", "text", "message", "error_text"}

(***************************************************************************)
(* C13: an update_card call without contents and with at least one of      *)
(* is_mandatory, sort_order, is_active, card_type issues no GET and        *)
(* exactly one PUT, whose body has exactly the keys of the supplied fields *)
(* with the caller's values (false and 0 included) and no contents key.    *)
(***************************************************************************)
FieldsOnlyUpdate ==
    /\ tool = "update_card"
    /\ args.contents = None
    /\ \/ args.is_mandatory # None
       \/ args.sort_order # None
       \/ args.is_active # None
       \/ args.card_type # None

\* key k is in the body exactly when the argument o was supplied, with its value
BodyHas(body, k, o) ==
    /\ k \in DOMAIN body <=> o # None
    /\ o # None => body[k] = o[1]

C13_FieldsWrittenDirectly ==
    FieldsOnlyUpdate =>
        /\ HttpCalls("GET") = {}
        /\ Calls("http") = {1}
        /\ HttpCalls("PUT") = {1}
        /\ LET body == trace[1].data.body
           IN  /\ DOMAIN body \subseteq {"isMandatory", "sortOrder", "isActive", "cardType"}
               /\ BodyHas(body, "isMandatory", args.is_mandatory)
               /\ BodyHas(body, "sortOrder", args.sort_order)
               /\ BodyHas(body, "isActive", args.is_active)
               /\ BodyHas(body, "cardType", args.card_type)

\* only false and 0 are supplied
C13_Witness ==
    /\ FieldsOnlyUpdate
    /\ args.is_mandatory = Some(FALSE)
    /\ args.sort_order = Some(0)
    /\ args.is_active = None
    /\ args.card_type = None
    /\ pc = "done"
    /\ trace[1].data.body = [isMandatory |-> FALSE, sortOrder |-> 0]
    /\ SuccessAt(2, "http")

(***************************************************************************)
(* C14: the POST of every create_*_card tool carries sortOrder equal to    *)
(* the caller's sort_order whenever one is provided, 0 included, and has   *)
(* no sortOrder key exactly when sort_order is not provided.               *)
(***************************************************************************)
CardTools ==
    {"create_audio_card", "create_content_card", "create_quiz_card", "create_poll_card",
     "create_form_card", "create_video_card", "create_link_card"}

C14_SortOrderAsProvided ==
    (tool \in CardTools /\ HttpCalls("POST") # {}) =>
        BodyHas(trace[1].data.body, "sortOrder", args.sort_order)

(***************************************************************************)
(* C15: create_content_card stores the header twice: _header1.text is      *)
(* header1_text unchanged, and header1 is header1_text without the inline  *)
(* markup, so that header1 contains no occurrence of <b>, </b>, <i>, </i>  *)
(* for any input; likewise header2 when header2_text is supplied.          *)
(***************************************************************************)
MarkupTags ==
    {<<"<", "b", ">">>, <<"<", "/", "b", ">">>, <<"<", "i", ">">>, <<"<", "/", "i", ">">>}

Occurs(pat, s) == \E i \in 1..Len(s) : IsPrefix(pat, SubSeq(s, i, Len(s)))

TagFree(s) == \A t \in MarkupTags : ~Occurs(t, s)

C15_HeaderPlainTextHasNoTags ==
    tool = "create_content_card" =>
        /\ SentContents._header1.text = args.header1_text
        /\ TagFree(SentContents.header1)
        /\ "header2" \in DOMAIN SentContents =>
              /\ SentContents._header2.text = args.header2_text[1]
              /\ TagFree(SentContents.header2)

(***************************************************************************)
(* C16: when the mode of the decoded image carries an alpha channel or a   *)
(* palette, the transcoder flattens the image to RGB before encoding it;   *)
(* an image of any other mode is encoded as it is.  So what the image      *)
(* pipeline uploads for an alpha-carrying provider image is RGB.           *)
(***************************************************************************)
\* Pillow modes with an alpha band or a palette
AlphaOrPaletteModes == {"RGBA", "LA", "P", "PA", "RGBa", "La"}

C16_AlphaAndPaletteFlattened ==
    tool \in ImageTools =>
        \A i \in 1..Len(trace) :
            (trace[i].stage = "transcode" /\ trace[i].ev = "ok") =>
                LET source == trace[i - 1].data.value[1].mode
                    encoded == trace[i].data.mode
                IN  /\ source \in AlphaOrPaletteModes => encoded = "RGB"
                    /\ source \notin AlphaOrPaletteModes => encoded = source
                    /\ \A u \in Calls("upload") : trace[u].data.file_data.mode = encoded

(***************************************************************************)
(* C17: when two concurrent update_card invocations with contents          *)
(* partials on disjoint keys against the same card both succeed,           *)
(* the final remote contents hold every key the card had before and every  *)
(* key of both partials with the value its caller supplied.                *)
(***************************************************************************)
Succeeded(p) ==
    /\ pc[p] = "done"
    /\ result[p].kind = "json"
    /\ ~HasErrorKey(result[p].value)

Partial(p) == args[p].contents[1]

Holds(c, k, v) == k \in DOMAIN c /\ c[k] = v

C17_BothPartialsKept ==
    (\A p \in Procs : Succeeded(p)) =>
        /\ DOMAIN remote.original \subseteq DOMAIN remote.contents
        /\ \A p \in Procs : \A k \in DOMAIN Partial(p) :
               Holds(remote.contents, k, Partial(p)[k])

====
